---- MODULE Spec2Model ----
(***************************************************************************)
(* Model of src/quic.go: a rate-limited concurrent HTTP load generator.    *)
(* main() validates the URL, creates a timeout context, a time.Tick rate   *)
(* limiter, a buffered status channel, one aggregator goroutine and        *)
(* `concurrent` worker goroutines; it then waits for the workers, closes   *)
(* the channel and reports completion.  Time is abstracted: the deadline   *)
(* and the two tickers may fire at any moment they are armed.              *)
(***************************************************************************)
EXTENDS Integers, Sequences, FiniteSets, TLC

\* ---------------------------------------------------------------- bounds
MaxWorkers == 2      \* largest value of -c explored
MaxTicks == 3        \* ticks the rate limiter emits in one run
ChanCap == 2         \* capacity of statusChan (100 in the source, scaled)

\* ------------------------------------------------------- program constants
Second == 1000000000 \* time.Second in nanoseconds

\* ------------------------------------------------------------ input sets
UrlInputs == {"", "%zz", "http://h"}
RateInputs == {-1, 0, 1}
ConcurrentInputs == -1..MaxWorkers
DurationInputs == {0, 1}
Codes == {200, 503}
Responses == [fail : {FALSE}, status : Codes] \cup {[fail |-> TRUE, status |-> 0]}
AllCodes == Codes \cup {0}
Workers == 1..MaxWorkers

VARIABLES
    urlStr, rateLimit, concurrent, duration, \* parsed flags (lines 31-36)
    mainpc,        \* position of main()
    ctx,           \* "none" | "live" | "done"  (line 49)
    rateLimiter,   \* "unset" | "nil" | "empty" | "tick"  (line 53)
    ticks,         \* ticks emitted by the limiter so far
    statusChan,    \* buffered contents of statusChan (line 59)
    closed,        \* statusChan has been closed (line 99)
    wg,            \* WaitGroup counter (line 56)
    i,             \* loop variable of the spawn loop (line 77)
    wpc,           \* position of each worker goroutine
    wcode,         \* statusCode held by each worker
    aggpc,         \* position of the aggregator goroutine
    statusCounts,  \* logStatusCounts local map (line 157)
    total,         \* logStatusCounts local total (line 158)
    started,       \* history: sendRequest calls begun
    completed,     \* history: sendRequest calls returned
    pushed,        \* history: values sent on statusChan
    tallied,       \* history: sum of printed "Total Requests"
    passStartLen,  \* history: len(statusChan) when the current pass began
    passPushed,    \* history: sends on statusChan during the current pass
    passPopped,    \* history: values taken off statusChan in the current pass
    stdout         \* the last summary or message printed on standard output

vars == <<urlStr, rateLimit, concurrent, duration, mainpc, ctx, rateLimiter,
          ticks, statusChan, closed, wg, i, wpc, wcode, aggpc, statusCounts,
          total, started, completed, pushed, tallied, passStartLen,
          passPushed, passPopped, stdout>>

flagVars == <<urlStr, rateLimit, concurrent, duration>>
workerVars == <<wpc, wcode>>
aggVars == <<aggpc, statusCounts, total, tallied, passStartLen, passPopped>>
histVars == <<started, completed, pushed>>

\* ------------------------------------------------------------- helpers

\* Go integer division truncates toward zero.
GoDiv(a, b) ==
    IF (a >= 0) = (b > 0) THEN a \div b ELSE -((-a) \div b)

\* url.Parse on the inputs explored: an invalid percent escape is an error.
urlParse(u) ==
    IF u = "%zz" THEN [err |-> TRUE, scheme |-> ""]
    ELSE IF u = "" THEN [err |-> FALSE, scheme |-> ""]
    ELSE [err |-> FALSE, scheme |-> "http"]

\* lines 38-46: the two log.Fatal exits.
URLRejected_EmptyOnly(u) == u = ""

URLRejected(u) == u = "" \/ urlParse(u).err

\* context.WithTimeout: a non-positive timeout is already expired.
WithTimeout(d) == IF d <= 0 THEN "done" ELSE "live"

\* time.Tick(d) returns nil for d <= 0.
Tick(d) == IF d <= 0 THEN "nil" ELSE "empty"

\* sendRequest: (statusCode, err) for the transport's answer.
sendRequest(resp) ==
    IF resp.fail THEN [code |-> 0, err |-> TRUE]
    ELSE [code |-> resp.status, err |-> FALSE]

\* The process is alive: no log.Fatal, no panic, main has not returned.
Running == mainpc \notin {"fatal", "panic_div", "panic_send", "exited"}

\* wg.Wait() returns when the counter is zero.
WgWaitReturns_NoWait == TRUE

WgWaitReturns == wg = 0

\* The select of logStatusCounts (lines 162-171).
Recv(ch, cl) ==
    IF Len(ch) > 0 THEN [kind |-> "value", code |-> Head(ch)]
    ELSE IF cl THEN [kind |-> "closed", code |-> 0]
    ELSE [kind |-> "default", code |-> 0]

\* lines 164-168: a received value is tallied only when ok.
Counted_NoOkCheck(r) == r.kind # "default"

Counted(r) == r.kind = "value"

\* line 163: a receive takes the head off the buffer, if there is one.
AfterRecv_Peek(ch, r) == ch

AfterRecv(ch, r) == IF r.kind = "value" THEN Tail(ch) ELSE ch

\* line 167: statusCounts[statusCode]++
Bump_WrongKey(counts, c) == [counts EXCEPT ![0] = @ + 1]

Bump(counts, c) == [counts EXCEPT ![c] = @ + 1]

\* lines 172-174: the loop's only exit.
LoopEnds_AfterOne(ch) == TRUE

LoopEnds(ch) == Len(ch) = 0

\* line 85: a receive from the limiter's channel empties its one slot.
AfterRecvTick_Peek(rl) == rl

AfterRecvTick(rl) == "empty"

\* line 80: the deferred wg.Done().
WgDone_Missing(n) == n

WgDone(n) == n - 1

EmptyCounts == [c \in AllCodes |-> 0]

\* ---------------------------------------------------------------- Init
Init ==
    /\ urlStr \in UrlInputs
    /\ rateLimit \in RateInputs
    /\ concurrent \in ConcurrentInputs
    /\ duration \in DurationInputs
    /\ mainpc = "start"
    /\ ctx = "none"
    /\ rateLimiter = "unset"
    /\ ticks = 0
    /\ statusChan = <<>>
    /\ closed = FALSE
    /\ wg = 0
    /\ i = 0
    /\ wpc = [w \in Workers |-> "idle"]
    /\ wcode = [w \in Workers |-> 0]
    /\ aggpc = "unstarted"
    /\ statusCounts = EmptyCounts
    /\ total = 0
    /\ started = 0
    /\ completed = 0
    /\ pushed = 0
    /\ tallied = 0
    /\ passStartLen = 0
    /\ passPushed = 0
    /\ passPopped = EmptyCounts
    /\ stdout = [kind |-> "none", total |-> 0]

\* ---------------------------------------------------------------- main
CheckURL ==
    /\ mainpc = "start"
    /\ mainpc' = IF URLRejected(urlStr) THEN "fatal" ELSE "ctx"
    /\ UNCHANGED <<flagVars, ctx, rateLimiter, ticks, statusChan, closed, wg,
                   i, workerVars, aggVars, histVars, passPushed, stdout>>

CreateContext ==
    /\ mainpc = "ctx"
    /\ ctx' = WithTimeout(duration)
    /\ mainpc' = "limiter"
    /\ UNCHANGED <<flagVars, rateLimiter, ticks, statusChan, closed, wg, i,
                   workerVars, aggVars, histVars, passPushed, stdout>>

\* line 53: time.Second / time.Duration(*rateLimit) panics on zero.
CreateLimiter ==
    /\ mainpc = "limiter"
    /\ IF rateLimit = 0
       THEN /\ mainpc' = "panic_div"
            /\ UNCHANGED rateLimiter
       ELSE /\ rateLimiter' = Tick(GoDiv(Second, rateLimit))
            /\ mainpc' = "agg"
    /\ UNCHANGED <<flagVars, ctx, ticks, statusChan, closed, wg, i,
                   workerVars, aggVars, histVars, passPushed, stdout>>

\* lines 59-74: make(chan int, cap) and go func() { ... }().
StartAggregator ==
    /\ mainpc = "agg"
    /\ statusChan' = <<>>
    /\ aggpc' = "select"
    /\ mainpc' = "spawn"
    /\ UNCHANGED <<flagVars, ctx, rateLimiter, ticks, closed, wg, i,
                   workerVars, statusCounts, total, tallied, passStartLen,
                   histVars, passPushed, stdout, passPopped>>

\* lines 77-95: one iteration of the spawn loop, or its exit.
SpawnLoop ==
    /\ mainpc = "spawn"
    /\ IF i < concurrent
       THEN /\ wg' = wg + 1
            /\ wpc' = [wpc EXCEPT ![i + 1] = "select"]
            /\ i' = i + 1
            /\ UNCHANGED mainpc
       ELSE /\ mainpc' = "wait"
            /\ UNCHANGED <<wg, wpc, i>>
    /\ UNCHANGED <<flagVars, ctx, rateLimiter, ticks, statusChan, closed,
                   wcode, aggVars, histVars, passPushed, stdout>>

\* line 98
WgWait ==
    /\ mainpc = "wait"
    /\ WgWaitReturns
    /\ mainpc' = "close"
    /\ UNCHANGED <<flagVars, ctx, rateLimiter, ticks, statusChan, closed, wg,
                   i, workerVars, aggVars, histVars, passPushed, stdout>>

\* line 99
CloseChan ==
    /\ mainpc = "close"
    /\ closed' = TRUE
    /\ mainpc' = "report"
    /\ UNCHANGED <<flagVars, ctx, rateLimiter, ticks, statusChan, wg, i,
                   workerVars, aggVars, histVars, passPushed, stdout>>

\* lines 100-101: print "Stress test completed." and return from main,
\* which ends the process and every goroutine with it.
Report ==
    /\ mainpc = "report"
    /\ mainpc' = "exited"
    /\ stdout' = [kind |-> "completed", total |-> 0]
    /\ UNCHANGED <<flagVars, ctx, rateLimiter, ticks, statusChan, closed, wg,
                   i, workerVars, aggVars, histVars, passPushed>>

\* ------------------------------------------------------- timers
\* The context's deadline expires.
DeadlineFire ==
    /\ Running
    /\ ctx = "live"
    /\ ctx' = "done"
    /\ UNCHANGED <<flagVars, mainpc, rateLimiter, ticks, statusChan, closed,
                   wg, i, workerVars, aggVars, histVars, passPushed, stdout>>

\* The limiter's ticker sends on its one-slot channel.
LimiterTick ==
    /\ Running
    /\ rateLimiter = "empty"
    /\ ticks < MaxTicks
    /\ rateLimiter' = "tick"
    /\ ticks' = ticks + 1
    /\ UNCHANGED <<flagVars, mainpc, ctx, statusChan, closed, wg, i,
                   workerVars, aggVars, histVars, passPushed, stdout>>

\* ------------------------------------------------------------- workers
\* lines 82-84: the select takes ctx.Done(); defer wg.Done() runs.
WorkerCancel(w) ==
    /\ Running
    /\ wpc[w] = "select"
    /\ ctx = "done"
    /\ wpc' = [wpc EXCEPT ![w] = "done"]
    /\ wg' = WgDone(wg)
    /\ UNCHANGED <<flagVars, mainpc, ctx, rateLimiter, ticks, statusChan,
                   closed, i, wcode, aggVars, histVars, passPushed, stdout>>

\* A worker that started the request in a goroutine of its own would go
\* straight back to its select.
WorkerPermit_Async(w) ==
    /\ Running
    /\ wpc[w] = "select"
    /\ rateLimiter = "tick"
    /\ rateLimiter' = AfterRecvTick(rateLimiter)
    /\ started' = started + 1
    /\ UNCHANGED <<flagVars, mainpc, ctx, ticks, statusChan, closed, wg, i,
                   workerVars, aggVars, completed, pushed, passPushed,
                   stdout>>

\* lines 85-86: the select takes a tick and sendRequest is called.
WorkerPermit(w) ==
    /\ Running
    /\ wpc[w] = "select"
    /\ rateLimiter = "tick"
    /\ rateLimiter' = AfterRecvTick(rateLimiter)
    /\ wpc' = [wpc EXCEPT ![w] = "request"]
    /\ started' = started + 1
    /\ UNCHANGED <<flagVars, mainpc, ctx, ticks, statusChan, closed, wg, i,
                   wcode, aggVars, completed, pushed, passPushed, stdout>>

\* A worker that returned on a request error would leave its loop.
WorkerRequest_ExitOnError(w) ==
    /\ Running
    /\ wpc[w] = "request"
    /\ \E resp \in Responses :
         LET r == sendRequest(resp) IN
           IF r.err
           THEN /\ wpc' = [wpc EXCEPT ![w] = "done"]
                /\ wg' = WgDone(wg)
                /\ UNCHANGED wcode
           ELSE /\ wpc' = [wpc EXCEPT ![w] = "push"]
                /\ wcode' = [wcode EXCEPT ![w] = r.code]
                /\ UNCHANGED wg
    /\ completed' = completed + 1
    /\ UNCHANGED <<flagVars, mainpc, ctx, rateLimiter, ticks, statusChan,
                   closed, i, aggVars, started, pushed, passPushed, stdout>>

\* lines 86-89: sendRequest returns; an error is logged and the loop
\* continues, a status code goes on to the send of line 90.
WorkerRequest(w) ==
    /\ Running
    /\ wpc[w] = "request"
    /\ \E resp \in Responses :
         LET r == sendRequest(resp) IN
           IF r.err
           THEN /\ wpc' = [wpc EXCEPT ![w] = "select"]
                /\ UNCHANGED wcode
           ELSE /\ wpc' = [wpc EXCEPT ![w] = "push"]
                /\ wcode' = [wcode EXCEPT ![w] = r.code]
    /\ completed' = completed + 1
    /\ UNCHANGED <<flagVars, mainpc, ctx, rateLimiter, ticks, statusChan,
                   closed, wg, i, aggVars, started, pushed, passPushed, stdout>>

\* line 90: statusChan <- statusCode blocks while the buffer is full and
\* panics on a closed channel.
WorkerPush(w) ==
    /\ Running
    /\ wpc[w] = "push"
    /\ IF closed
       THEN /\ mainpc' = "panic_send"
            /\ UNCHANGED <<statusChan, wpc, pushed, passPushed>>
       ELSE /\ Len(statusChan) < ChanCap
            /\ statusChan' = Append(statusChan, wcode[w])
            /\ wpc' = [wpc EXCEPT ![w] = "select"]
            /\ pushed' = pushed + 1
            /\ passPushed' = IF aggpc \in {"recv", "len", "print"}
                             THEN passPushed + 1 ELSE passPushed
            /\ UNCHANGED mainpc
    /\ UNCHANGED <<flagVars, ctx, rateLimiter, ticks, closed, wg, i, wcode,
                   aggVars, started, completed, stdout>>

\* ---------------------------------------------------------- aggregator
\* lines 68-69
AggCancel ==
    /\ Running
    /\ aggpc = "select"
    /\ ctx = "done"
    /\ aggpc' = "exited"
    /\ UNCHANGED <<flagVars, mainpc, ctx, rateLimiter, ticks, statusChan,
                   closed, wg, i, workerVars, statusCounts, total, tallied,
                   passStartLen, histVars, passPushed, stdout, passPopped>>

\* lines 70-71 and 157-158: the ticker fires, logStatusCounts begins.
AggTick ==
    /\ Running
    /\ aggpc = "select"
    /\ aggpc' = "recv"
    /\ statusCounts' = EmptyCounts
    /\ total' = 0
    /\ passStartLen' = Len(statusChan)
    /\ passPushed' = 0
    /\ passPopped' = EmptyCounts
    /\ UNCHANGED <<flagVars, mainpc, ctx, rateLimiter, ticks, statusChan,
                   closed, wg, i, workerVars, tallied, histVars, stdout>>

\* lines 162-171: one non-blocking receive.
DrainRecv ==
    /\ Running
    /\ aggpc = "recv"
    /\ LET r == Recv(statusChan, closed) IN
         /\ statusChan' = AfterRecv(statusChan, r)
         /\ passPopped' = IF Len(statusChan) > 0
                          THEN [passPopped EXCEPT ![Head(statusChan)] = @ + 1]
                          ELSE passPopped
         /\ IF Counted(r)
            THEN /\ statusCounts' = Bump(statusCounts, r.code)
                 /\ total' = total + 1
            ELSE UNCHANGED <<statusCounts, total>>
    /\ aggpc' = "len"
    /\ UNCHANGED <<flagVars, mainpc, ctx, rateLimiter, ticks, closed, wg, i,
                   workerVars, tallied, passStartLen, histVars, passPushed, stdout>>

\* lines 172-174: the loop ends when len(statusChan) == 0.
DrainLen ==
    /\ Running
    /\ aggpc = "len"
    /\ aggpc' = IF LoopEnds(statusChan) THEN "print" ELSE "recv"
    /\ UNCHANGED <<flagVars, mainpc, ctx, rateLimiter, ticks, statusChan,
                   closed, wg, i, workerVars, statusCounts, total, tallied,
                   passStartLen, histVars, passPushed, stdout, passPopped>>

\* lines 177-188: the summary is printed and logStatusCounts returns.
DrainPrint ==
    /\ Running
    /\ aggpc = "print"
    /\ tallied' = tallied + total
    /\ stdout' = [kind |-> "window", total |-> total]
    /\ aggpc' = "select"
    /\ UNCHANGED <<flagVars, mainpc, ctx, rateLimiter, ticks, statusChan,
                   closed, wg, i, workerVars, statusCounts, total,
                   passStartLen, histVars, passPushed, passPopped>>

\* ---------------------------------------------------------------- Next
Next ==
    \/ CheckURL
    \/ CreateContext
    \/ CreateLimiter
    \/ StartAggregator
    \/ SpawnLoop
    \/ WgWait
    \/ CloseChan
    \/ Report
    \/ DeadlineFire
    \/ LimiterTick
    \/ \E w \in Workers : WorkerCancel(w)
    \/ \E w \in Workers : WorkerPermit(w)
    \/ \E w \in Workers : WorkerRequest(w)
    \/ \E w \in Workers : WorkerPush(w)
    \/ AggCancel
    \/ AggTick
    \/ DrainRecv
    \/ DrainLen
    \/ DrainPrint

Spec == Init /\ [][Next]_vars

TypeOK ==
    /\ mainpc \in {"start", "fatal", "ctx", "limiter", "panic_div",
                   "panic_send", "agg",
                   "spawn", "wait", "close", "report", "exited"}
    /\ ctx \in {"none", "live", "done"}
    /\ rateLimiter \in {"unset", "nil", "empty", "tick"}
    /\ ticks \in 0..MaxTicks
    /\ statusChan \in Seq(Codes) /\ Len(statusChan) <= ChanCap
    /\ closed \in BOOLEAN
    /\ wg \in 0..MaxWorkers
    /\ i \in 0..MaxWorkers
    /\ wpc \in [Workers -> {"idle", "select", "request", "push", "done"}]
    /\ aggpc \in {"unstarted", "select", "recv", "len", "print", "exited"}
    /\ total \in 0..MaxTicks
    /\ started \in 0..MaxTicks /\ completed <= started /\ pushed <= completed
    /\ tallied <= pushed

\* ---------------------------------------------------------------- claims

\* C1: when main reports completion, the totals of all printed tallies add
\* up to the number of values the workers sent on statusChan.
C1_CountConservation ==
    mainpc = "exited" => tallied = pushed

\* C2: no worker is ever blocked sending on a full statusChan after the
\* aggregator, its only reader, has exited.
C2_NoWorkerBlockedForever ==
    ~ \E w \in Workers :
        /\ wpc[w] = "push"
        /\ ~closed
        /\ Len(statusChan) = ChanCap
        /\ aggpc = "exited"

\* C3: once the context is done, no worker takes a tick and starts a
\* request.
C3_NoRequestAfterDeadline ==
    [][\A w \in Workers :
         (wpc[w] = "select" /\ wpc'[w] = "request") => ctx # "done"]_vars

\* C4: the aggregator never exits straight from its select on
\* cancellation; a final drain-and-report pass comes first.
C4_FinalDrainBeforeExit ==
    [][(aggpc # "exited" /\ aggpc' = "exited") => aggpc # "select"]_vars

\* C5: every completed request, failed or not, accounts for exactly one
\* value sent (or being sent) on statusChan.
C5_OneOutcomePerRequest ==
    pushed + Cardinality({w \in Workers : wpc[w] = "push"}) = completed

\* C6: statusChan is closed only once each of the `concurrent` workers has
\* been started and has exited, and no send ever hits a closed channel.
C6_CloseDiscipline ==
    /\ closed =>
         /\ \A w \in Workers :
              wpc[w] = IF w <= concurrent THEN "done" ELSE "idle"
         /\ wg = 0
         /\ mainpc \in {"report", "exited"}
    /\ mainpc # "panic_send"

C6_Witness ==
    /\ closed
    /\ concurrent >= 2
    /\ pushed >= 1
    /\ \A w \in 1..concurrent : wpc[w] = "done"

\* C7: main never reports completion and returns while the aggregator is
\* still running.
C7_WaitsForAggregator ==
    mainpc = "exited" => aggpc = "exited"

\* C8: a non-positive rate, concurrency or duration is rejected before the
\* aggregator or any worker starts and before any request is made.
C8_InvalidNumericRejected ==
    (rateLimit <= 0 \/ concurrent <= 0 \/ duration <= 0) =>
        /\ aggpc = "unstarted"
        /\ \A w \in Workers : wpc[w] = "idle"
        /\ started = 0
        /\ mainpc # "panic_div"

\* C9: with a missing or unparseable URL the process aborts before the
\* context, the limiter, the aggregator or a worker exists, and no request
\* is made.
C9_BadURLAborts ==
    (urlStr = "" \/ urlParse(urlStr).err) =>
        /\ mainpc \in {"start", "fatal"}
        /\ ctx = "none"
        /\ rateLimiter = "unset"
        /\ aggpc = "unstarted"
        /\ \A w \in Workers : wpc[w] = "idle"
        /\ started = 0

C9_Witness ==
    /\ urlParse(urlStr).err
    /\ mainpc = "fatal"

\* C10: a drain pass that starts on an empty statusChan, open or closed,
\* and sees no send while it runs never blocks, ends with an empty tally
\* and total 0, and leaves the channel as it was.
C10_EmptyDrainIsZero ==
    (passStartLen = 0 /\ passPushed = 0) =>
        /\ total = 0
        /\ statusCounts = EmptyCounts
        /\ aggpc \in {"recv", "len", "print"} => statusChan = <<>>
        /\ (Running /\ aggpc = "recv") => ENABLED DrainRecv
        /\ (Running /\ aggpc = "len") => ENABLED DrainLen
        /\ aggpc = "len" => Len(statusChan) = 0

C10_Witness ==
    /\ aggpc = "print"
    /\ closed
    /\ passStartLen = 0
    /\ passPushed = 0
    /\ pushed >= 1
    /\ total = 0

\* Helpers of the formulas below.
RECURSIVE SumOver(_, _)
SumOver(f, S) ==
    IF S = {} THEN 0
    ELSE LET c == CHOOSE x \in S : TRUE IN f[c] + SumOver(f, S \ {c})

InPass == aggpc \in {"recv", "len", "print"}

InFlight == {w \in Workers : wpc[w] = "request"}

\* C11: the requests started never outnumber the ticks the limiter has
\* emitted; a tick still in the limiter's channel has started no request.
C11_OneRequestPerPermit ==
    started + (IF rateLimiter = "tick" THEN 1 ELSE 0) <= ticks

C11_Witness ==
    /\ concurrent >= 2
    /\ started >= 2
    /\ started = ticks
    /\ Cardinality(InFlight) >= 2

\* C12: a worker is gone only once the context is done, so with at least
\* one worker main gets past wg.Wait only after the deadline has fired,
\* whatever requests failed.
C12_FailureNeverEndsRun ==
    /\ \A w \in Workers : wpc[w] = "done" => ctx = "done"
    /\ (concurrent >= 1 /\ mainpc \in {"close", "report", "exited"})
           => ctx = "done"
    /\ mainpc # "panic_send"

C12_Witness ==
    /\ concurrent >= 1
    /\ duration > 0
    /\ mainpc = "exited"
    /\ completed >= 2
    /\ pushed = 0

\* C13: at shutdown one cumulative tally is printed and its total is the
\* sum of the totals of all the window summaries.
C13_CumulativeTallyAtShutdown ==
    mainpc = "exited" =>
        /\ stdout.kind = "cumulative"
        /\ stdout.total = tallied

\* C14: every value sent on statusChan is either still in the channel or
\* counted in exactly one pass, so the totals of all passes never exceed
\* the number of values sent.
C14_NoDoubleTally ==
    /\ tallied + (IF InPass THEN total ELSE 0) + Len(statusChan) = pushed
    /\ tallied <= pushed

C14_Witness ==
    /\ aggpc = "select"
    /\ tallied >= 2
    /\ stdout.kind = "window"
    /\ stdout.total < tallied

\* C15: a worker that has taken the cancellation branch stays stopped,
\* starts and sends nothing more, and has decremented the WaitGroup once:
\* the counter is the number of started workers that have not exited.
C15_CancelledWorkerStops ==
    [][/\ \A w \in Workers : wpc[w] = "done" => wpc'[w] = "done"
       /\ (started' # started \/ pushed' # pushed)
             => \E w \in Workers : wpc[w] # "done" /\ wpc'[w] # wpc[w]
       /\ wg' = i' - Cardinality({w \in Workers : wpc'[w] = "done"})
       /\ (wg' = 0 /\ mainpc' \in {"wait", "close", "report", "exited"})
             => \A w \in Workers : w <= concurrent => wpc'[w] = "done"]_vars

C15_Witness ==
    /\ concurrent >= 2
    /\ wg = 0
    /\ started >= 1
    /\ \A w \in 1..concurrent : wpc[w] = "done"

\* C16: the tally of a pass holds, per status code, exactly the values the
\* pass took off the channel, its total is the sum of its buckets, and it
\* holds nothing from an earlier pass.
C16_TallyIsThisPass ==
    /\ statusCounts = passPopped
    /\ total = SumOver(statusCounts, AllCodes)
    /\ InPass => total <= passStartLen + passPushed

C16_Witness ==
    /\ aggpc = "print"
    /\ tallied >= 1
    /\ statusCounts[200] >= 1
    /\ statusCounts[503] >= 1

\* C17: the drain loop is left only with the channel seen empty, so a pass
\* has counted everything that was in the channel when it began, whatever
\* the workers send meanwhile; without sends the channel is empty when the
\* pass returns.
C17_DrainsUntilEmpty ==
    aggpc = "print" =>
        /\ total >= passStartLen
        /\ total + Len(statusChan) = passStartLen + passPushed
        /\ passPushed = 0 => statusChan = <<>>

C17_Witness ==
    /\ aggpc = "print"
    /\ passStartLen >= 2
    /\ passPushed >= 1
    /\ total >= 3

\* C18: requests of one worker never overlap: the requests in flight are
\* those of the workers inside sendRequest, at most `concurrent` of them.
C18_SequentialPerWorker ==
    /\ started - completed = Cardinality(InFlight)
    /\ started - completed <= (IF concurrent > 0 THEN concurrent ELSE 0)

C18_Witness ==
    /\ concurrent >= 2
    /\ started - completed = 2
    /\ completed >= 1

\* C19: a pass that runs on the closed channel counts no phantom status 0
\* and cannot spin: once the channel is closed every further turn of the
\* loop takes a real value off it, and the pass then ends.
C19_ClosedChannelDrain ==
    /\ [](closed => /\ statusCounts[0] = 0
                    /\ total = SumOver(passPopped, Codes)
                    /\ mainpc # "panic_send")
    /\ [][(closed /\ aggpc = "len" /\ aggpc' = "recv")
              => Len(statusChan) > 0]_vars
    /\ [][(closed /\ aggpc = "recv" /\ aggpc' = "len")
              => \/ Len(statusChan') < Len(statusChan)
                 \/ (statusChan = <<>> /\ total' = total)]_vars

C19_Witness ==
    /\ closed
    /\ ctx = "done"
    /\ aggpc = "print"
    /\ passStartLen >= 2
    /\ total >= 2
    /\ statusCounts[0] = 0

====
